---- MODULE Spec2Model ----
(***************************************************************************)
(* A model of the grid ray-stepping core of src/index.ts: snap,           *)
(* hittingCell, rayStep, sceneSize and the wall-drawing loop of minimap.   *)
(*                                                                         *)
(* Numbers.  A JavaScript number is a binary64.  It is modelled as a       *)
(* record [n, d, e] standing for the value (n / d) * 2^e, with n / d a     *)
(* rational in lowest terms and e a scale.  Only a few, widely separated   *)
(* scales occur (0 for grid coordinates, multiples of HugeExp for huge or  *)
(* tiny magnitudes, MinValueExp for Number.MIN_VALUE).  Arithmetic on      *)
(* operands of one scale is exact; a sum of operands of different scales   *)
(* is the operand of the larger scale, which is what round-to-nearest      *)
(* gives when the smaller operand is below half an ulp of the larger.      *)
(* The rounding of binary64 inside one scale (at most 2^-53 relative) is   *)
(* not modelled.                                                           *)
(***************************************************************************)
EXTENDS Integers, Sequences, FiniteSets

(* ------------------------------ integers ------------------------------ *)

IAbs(i) == IF i < 0 THEN -i ELSE i

ISgn(i) == IF i > 0 THEN 1 ELSE IF i < 0 THEN -1 ELSE 0

RECURSIVE Gcd(_, _)
Gcd(a, b) == IF b = 0 THEN a ELSE Gcd(b, a % b)

(* ------------------------------ numbers ------------------------------- *)

\* Scale of the huge magnitudes of the model: Huge = 2^HugeExp.  Any value
\* above 116 keeps sums of different scales absorbed (31 + 31 bits of
\* significand ratio, 53 bits of binary64 precision, one for the half ulp).
HugeExp == 200

\* Number.MIN_VALUE = 2^MinValueExp, the smallest positive binary64.
MinValueExp == -1074

\* The value (n / d) * 2^e in lowest terms; zero has one representation.
Q(n, d, e) ==
    IF n = 0 THEN [n |-> 0, d |-> 1, e |-> 0]
    ELSE LET g == Gcd(IAbs(n), d)
         IN  [n |-> n \div g, d |-> d \div g, e |-> e]

FromInt(i) == Q(i, 1, 0)

NumNeg(a) == [n |-> -a.n, d |-> a.d, e |-> a.e]

\* a + b: exact on one scale, absorbed by the larger scale otherwise.
NumAdd(a, b) ==
    IF a.n = 0 THEN b
    ELSE IF b.n = 0 THEN a
    ELSE IF a.e > b.e THEN a
    ELSE IF b.e > a.e THEN b
    ELSE LET g == Gcd(a.d, b.d)
         IN  Q(a.n * (b.d \div g) + b.n * (a.d \div g), (a.d \div g) * b.d, a.e)

NumSub(a, b) == NumAdd(a, NumNeg(b))

NumMul(a, b) ==
    IF a.n = 0 \/ b.n = 0 THEN Q(0, 1, 0)
    ELSE LET g1 == Gcd(IAbs(a.n), b.d)
             g2 == Gcd(IAbs(b.n), a.d)
         IN  Q((a.n \div g1) * (b.n \div g2), (a.d \div g2) * (b.d \div g1), a.e + b.e)

\* a / b for b # 0 (every division of the modelled code is guarded by b !== 0).
NumDiv(a, b) ==
    NumMul(a, [n |-> ISgn(b.n) * b.d, d |-> IAbs(b.n), e |-> -b.e])

NumLess(a, b) == NumSub(a, b).n < 0

\* Math.sign
NumSign(a) == FromInt(ISgn(a.n))

\* Math.floor: a binary64 of a huge scale is an integer already; one of a
\* tiny scale lies strictly between -1 and 1.
NumFloor(a) ==
    IF a.e > 0 THEN a
    ELSE IF a.e < 0 THEN (IF a.n < 0 THEN FromInt(-1) ELSE FromInt(0))
    ELSE FromInt(a.n \div a.d)

\* Math.ceil
NumCeil(a) == NumNeg(NumFloor(NumNeg(a)))

\* Math.max
NumMax(a, b) == IF NumLess(a, b) THEN b ELSE a

IsInteger(a) == a.e > 0 \/ (a.e = 0 /\ a.d = 1)

(* ------------------------------ constants ----------------------------- *)

\* const EPS = 1e-3
EpsDen == 1000

EPS == Q(1, EpsDen, 0)

MIN_VALUE == Q(1, 1, MinValueExp)

Huge == Q(1, 1, HugeExp)

(* -------------------------------- snap -------------------------------- *)

\* snap without the epsilon bias.
snapNoBias(x, dx) ==
    IF dx.n > 0 THEN NumCeil(x)
    ELSE IF dx.n < 0 THEN NumFloor(x)
    ELSE x

snap(x, dx) ==
    IF dx.n > 0 THEN NumCeil(NumAdd(x, NumMul(NumSign(dx), EPS)))
    ELSE IF dx.n < 0 THEN NumFloor(NumAdd(x, NumMul(NumSign(dx), EPS)))
    ELSE x

(* ---------------------- big naturals (for lenght) ---------------------- *)

\* A natural as its digits in base BigBase, least significant first, without
\* leading zeros: the squares under the root of lenght() exceed 32 bits.
BigBase == 100 * 100

RECURSIVE Big(_)
Big(i) == IF i = 0 THEN <<>> ELSE <<i % BigBase>> \o Big(i \div BigBase)

RECURSIVE BigAddC(_, _, _)
BigAddC(a, b, c) ==
    IF a = <<>> /\ b = <<>> THEN (IF c = 0 THEN <<>> ELSE <<c>>)
    ELSE LET x == IF a = <<>> THEN 0 ELSE Head(a)
             y == IF b = <<>> THEN 0 ELSE Head(b)
             s == x + y + c
         IN  <<s % BigBase>> \o BigAddC(IF a = <<>> THEN a ELSE Tail(a),
                                        IF b = <<>> THEN b ELSE Tail(b),
                                        s \div BigBase)

BigAdd(a, b) == BigAddC(a, b, 0)

RECURSIVE BigMulDigit(_, _, _)
BigMulDigit(a, k, c) ==
    IF a = <<>> THEN Big(c)
    ELSE LET s == Head(a) * k + c
         IN  <<s % BigBase>> \o BigMulDigit(Tail(a), k, s \div BigBase)

RECURSIVE BigMul(_, _)
BigMul(a, b) ==
    IF a = <<>> \/ b = <<>> THEN <<>>
    ELSE LET low  == IF Head(b) = 0 THEN <<>> ELSE BigMulDigit(a, Head(b), 0)
             high == BigMul(a, Tail(b))
         IN  BigAdd(low, IF high = <<>> THEN <<>> ELSE <<0>> \o high)

RECURSIVE BigLess(_, _)
BigLess(a, b) ==
    IF Len(a) # Len(b) THEN Len(a) < Len(b)
    ELSE IF a = <<>> THEN FALSE
    ELSE LET i == Len(a)
         IN  IF a[i] # b[i] THEN a[i] < b[i]
             ELSE BigLess(SubSeq(a, 1, i - 1), SubSeq(b, 1, i - 1))

(* ------------------------------- Vector2 ------------------------------ *)

Vec(x, y) == [x |-> x, y |-> y]

zero == Vec(FromInt(0), FromInt(0))

sub(this, that) == Vec(NumSub(this.x, that.x), NumSub(this.y, that.y))

\* The square of a number as a fraction of big naturals on the scale 2^e.
BigSquare(a) ==
    [N |-> BigMul(Big(IAbs(a.n)), Big(IAbs(a.n))),
     D |-> BigMul(Big(a.d), Big(a.d)),
     e |-> 2 * a.e]

\* lenght() is Math.sqrt(x * x + y * y).  The model keeps the sum under the
\* root: the root is increasing, so lengths compare as these sums do.  The
\* sum is a binary64 sum too: squares of different scales absorb.
lenght(this) ==
    LET xx == BigSquare(this.x)
        yy == BigSquare(this.y)
    IN  IF xx.N = <<>> THEN yy
        ELSE IF yy.N = <<>> THEN xx
        ELSE IF xx.e > yy.e THEN xx
        ELSE IF yy.e > xx.e THEN yy
        ELSE [N |-> BigAdd(BigMul(xx.N, yy.D), BigMul(yy.N, xx.D)),
              D |-> BigMul(xx.D, yy.D),
              e |-> xx.e]

distanceTo(this, that) == lenght(sub(that, this))

\* l1 < l2 for two results of lenght() / distanceTo().
LenLess(l1, l2) ==
    IF l2.N = <<>> THEN FALSE
    ELSE IF l1.N = <<>> THEN TRUE
    ELSE IF l1.e # l2.e THEN l1.e < l2.e
    ELSE BigLess(BigMul(l1.N, l2.D), BigMul(l2.N, l1.D))

(* ------------------------ hittingCell, rayStep ------------------------ *)

hittingCell(p1, p2) ==
    LET d == sub(p2, p1)
    IN  Vec(NumFloor(NumAdd(p2.x, NumMul(NumSign(d.x), EPS))),
            NumFloor(NumAdd(p2.y, NumMul(NumSign(d.y), EPS))))

\* rayStep with the vertical branch snapping by d.x, which is 0 there.
rayStepVerticalByDx(p1, p2) ==
    LET d == sub(p2, p1)
    IN  IF d.x.n # 0
        THEN LET k  == NumDiv(d.y, d.x)
                 c  == NumSub(p1.y, NumMul(k, p1.x))
                 x3 == snap(p2.x, d.x)
                 y3 == NumAdd(NumMul(x3, k), c)
                 p3 == Vec(x3, y3)
             IN  IF k.n # 0
                 THEN LET y3t == snap(p2.y, d.y)
                          x3t == NumDiv(NumSub(y3t, c), k)
                          p3t == Vec(x3t, y3t)
                      IN  IF LenLess(distanceTo(p2, p3t), distanceTo(p2, p3))
                          THEN p3t
                          ELSE p3
                 ELSE p3
        ELSE LET y3 == snap(p2.y, d.x)
                 x3 == p2.x
             IN  Vec(x3, y3)

rayStep(p1, p2) ==
    LET d == sub(p2, p1)
    IN  IF d.x.n # 0
        THEN LET k  == NumDiv(d.y, d.x)
                 c  == NumSub(p1.y, NumMul(k, p1.x))
                 x3 == snap(p2.x, d.x)
                 y3 == NumAdd(NumMul(x3, k), c)
                 p3 == Vec(x3, y3)
             IN  IF k.n # 0
                 THEN LET y3t == snap(p2.y, d.y)
                          x3t == NumDiv(NumSub(y3t, c), k)
                          p3t == Vec(x3t, y3t)
                      IN  IF LenLess(distanceTo(p2, p3t), distanceTo(p2, p3))
                          THEN p3t
                          ELSE p3
                 ELSE p3
        ELSE LET y3 == snap(p2.y, d.y)
                 x3 == p2.x
             IN  Vec(x3, y3)

(* ------------------------- sceneSize, minimap ------------------------- *)

\* The for-of loop of sceneSize over the rows from index i on.
RECURSIVE MaxRowLength(_, _, _)
MaxRowLength(scene, i, x) ==
    IF i > Len(scene) THEN x
    ELSE MaxRowLength(scene, i + 1, NumMax(x, FromInt(Len(scene[i]))))

sceneSize(scene) ==
    LET y == FromInt(Len(scene))
        x == MaxRowLength(scene, 1, MIN_VALUE)
    IN  Vec(x, y)

\* scene[y][x] for 0-based x and y: a read past the end of a row gives
\* undefined (minimap reads only rows y < scene.length).
CellAt(scene, y, x) ==
    IF y + 1 > Len(scene) \/ x + 1 > Len(scene[y + 1])
    THEN [defined |-> FALSE, v |-> 0]
    ELSE [defined |-> TRUE, v |-> scene[y + 1][x + 1]]

\* `!== 0`: undefined is not 0.
NotZero(c) == ~c.defined \/ c.v # 0

(* -------------------------------- state ------------------------------- *)

\* Bounds of the inputs.
MaxSteps == 4
MaxRows == 2
MaxCols == 3
MaxCoord == 2
GridW == 1
GridH == 1

VARIABLES
    mode,       \* which function the behaviour exercises: "snap", "ray", "scene"
    pc,         \* "start", then the name of the last call made
    sx, sdx,    \* the arguments of snap
    sres,       \* the result of snap(sx, sdx)
    path,       \* the points of the walk: p0, p1, then each rayStep result
    cells,      \* hittingCell of each rayStep result
    scene,      \* the occupancy grid
    gridSize,   \* the result of sceneSize(scene)
    fills       \* the cells minimap fills as walls, as <<x, y>>

vars == <<mode, pc, sx, sdx, sres, path, cells, scene, gridSize, fills>>

\* Coordinates on the half-cell lattice, just before a grid line (at EPS from
\* it or closer), and of huge magnitude.
Halves == {Q(i, 2, 0) : i \in 0 .. 2 * MaxCoord}

NearLine == {Q(1997, 2000, 0), Q(999, 1000, 0), Q(1999, 2000, 0)}

Coords == Halves \cup NearLine \cup {Huge}

SnapArgs == Coords \cup {NumNeg(c) : c \in Coords}

Points == {Vec(x, y) : x \in Coords, y \in Coords}

Rows == UNION {[1 .. n -> {0, 1}] : n \in 0 .. MaxCols}

Scenes == UNION {[1 .. n -> Rows] : n \in 0 .. MaxRows}

InitSnap ==
    /\ mode = "snap"
    /\ sx \in SnapArgs
    /\ sdx \in SnapArgs
    /\ path = <<>>
    /\ scene = <<>>

InitRay ==
    /\ mode = "ray"
    /\ sx = zero.x
    /\ sdx = zero.x
    /\ \E p0 \in Points, p1 \in Points : path = <<p0, p1>>
    /\ scene = <<>>

InitScene ==
    /\ mode = "scene"
    /\ sx = zero.x
    /\ sdx = zero.x
    /\ path = <<>>
    /\ scene \in Scenes

Init ==
    /\ pc = "start"
    /\ sres = zero.x
    /\ cells = <<>>
    /\ gridSize = zero
    /\ fills = {}
    /\ (InitSnap \/ InitRay \/ InitScene)

\* snap(sx, sdx)
DoSnap ==
    /\ mode = "snap"
    /\ pc = "start"
    /\ sres' = snap(sx, sdx)
    /\ pc' = "snap"
    /\ UNCHANGED <<mode, sx, sdx, path, cells, scene, gridSize, fills>>

\* p_{n+1} = rayStep(p_{n-1}, p_n), then hittingCell(p_n, p_{n+1})
DoRayStep ==
    /\ mode = "ray"
    /\ Len(path) < MaxSteps + 2
    /\ LET n  == Len(path)
           p3 == rayStep(path[n - 1], path[n])
       IN  /\ path' = Append(path, p3)
           /\ cells' = Append(cells, hittingCell(path[n], p3))
    /\ pc' = "rayStep"
    /\ UNCHANGED <<mode, sx, sdx, sres, scene, gridSize, fills>>

\* sceneSize(scene)
DoSceneSize ==
    /\ mode = "scene"
    /\ pc = "start"
    /\ gridSize' = sceneSize(scene)
    /\ pc' = "sceneSize"
    /\ UNCHANGED <<mode, sx, sdx, sres, path, cells, scene, fills>>

\* The wall loop of minimap(ctx, player, position, size, scene): y and x
\* count up from 0 while below gridSize.y and gridSize.x.
DoMinimap ==
    /\ mode = "scene"
    /\ pc = "start"
    /\ LET size == sceneSize(scene)
           ys   == {y \in 0 .. MaxRows + 1 : NumLess(FromInt(y), size.y)}
           xs   == {x \in 0 .. MaxCols + 1 : NumLess(FromInt(x), size.x)}
       IN  /\ gridSize' = size
           /\ fills' = {c \in xs \X ys : NotZero(CellAt(scene, c[2], c[1]))}
    /\ pc' = "minimap"
    /\ UNCHANGED <<mode, sx, sdx, sres, path, cells, scene>>

Next == DoSnap \/ DoRayStep \/ DoSceneSize \/ DoMinimap

Spec == Init /\ [][Next]_vars

(* ------------------------------- claims ------------------------------- *)

\* The rayStep calls made so far: call i took anchor path[i] and frontier
\* path[i + 1] and returned path[i + 2]; cells[i] is hittingCell of the
\* frontier and the result.
Calls == 1 .. Len(path) - 2

\* Every coordinate of the point is of grid magnitude (scale 0).
Moderate(p) == p.x.e = 0 /\ p.y.e = 0

\* The coordinates a1 -> a2 -> a3 of one axis keep their direction.
SameWay(a1, a2, a3) == NumSign(NumSub(a3, a2)) = NumSign(NumSub(a2, a1))

\* p3 - p2 = t * (p2 - p1) for one t > 0, for points of grid magnitude.
OnRay(p1, p2, p3) ==
    LET d == sub(p2, p1)
        s == sub(p3, p2)
    IN  (d.x.n # 0 /\ d.y.n # 0) => NumDiv(s.x, d.x) = NumDiv(s.y, d.y)

\* (p3 - p2) . (p2 - p1) > 0: p3 is on the forward side of p2.
Forward(p1, p2, p3) ==
    LET d == sub(p2, p1)
        s == sub(p3, p2)
    IN  NumAdd(NumMul(s.x, d.x), NumMul(s.y, d.y)).n > 0

\* p3 lies ahead of p2 in the direction p2 - p1 and is strictly farther from
\* p1.  Where the three points are of grid magnitude the model's arithmetic
\* is exact, and p3 is required on the ray itself, both coordinates keeping
\* their direction.  Where a coordinate is huge a binary64 result is off the
\* ray by its rounding, and p3 is required on the forward side of p2 only.
Ahead(p1, p2, p3) ==
    IF Moderate(p1) /\ Moderate(p2) /\ Moderate(p3)
    THEN /\ SameWay(p1.x, p2.x, p3.x)
         /\ SameWay(p1.y, p2.y, p3.y)
         /\ OnRay(p1, p2, p3)
         /\ LenLess(distanceTo(p1, p2), distanceTo(p1, p3))
    ELSE Forward(p1, p2, p3)

Progress(p1, p2, p3) == p1 # p2 => (p3 # p2 /\ Ahead(p1, p2, p3))

\* C1: for all p1 # p2, rayStep(p1, p2) lies ahead of p2 in the direction
\* p2 - p1, is strictly farther from p1 than p2 is, and is not p2.
RayStepProgress ==
    \A i \in Calls : Progress(path[i], path[i + 1], path[i + 2])

\* C1 for anchors and frontiers of grid magnitude.
RayStepProgressModerate ==
    \A i \in Calls :
        (Moderate(path[i]) /\ Moderate(path[i + 1]))
            => Progress(path[i], path[i + 1], path[i + 2])

\* Some integer lies strictly between the coordinates a and b.
GridLineBetween(a, b) ==
    LET lo == IF NumLess(a, b) THEN a ELSE b
        hi == IF NumLess(a, b) THEN b ELSE a
    IN  NumLess(NumAdd(NumFloor(lo), FromInt(1)), hi)

OnGridLine(p) == IsInteger(p.x) \/ IsInteger(p.y)

\* C2: from p0 # p1, the walk p_{n+1} = rayStep(p_{n-1}, p_n) returns grid
\* line crossings only, skips no grid line between one point and the next,
\* returns no point twice, and returns them by increasing distance from p0.
WalkCrossesEveryLine ==
    (Len(path) >= 2 /\ path[1] # path[2]) =>
        \A i \in Calls :
            /\ OnGridLine(path[i + 2])
            /\ ~GridLineBetween(path[i + 1].x, path[i + 2].x)
            /\ ~GridLineBetween(path[i + 1].y, path[i + 2].y)
            /\ \A j \in 2 .. i + 1 : path[j] # path[i + 2]
            /\ (Moderate(path[1]) /\ Moderate(path[i + 1]) /\ Moderate(path[i + 2]))
                   => LenLess(distanceTo(path[1], path[i + 1]),
                              distanceTo(path[1], path[i + 2]))

\* C3: rayStep((0, 0), (2, 1)) returns (1, 0.5).
RayStepExampleAsClaimed ==
    (Len(path) >= 3 /\ path[1] = Vec(FromInt(0), FromInt(0))
                    /\ path[2] = Vec(FromInt(2), FromInt(1)))
        => path[3] = Vec(FromInt(1), Q(1, 2, 0))

\* C3, amended: rayStep((0, 0), (2, 1)) returns (3, 1.5), the first vertical
\* grid line crossing beyond the frontier p2, at x = 3.
RayStepExample ==
    (Len(path) >= 3 /\ path[1] = Vec(FromInt(0), FromInt(0))
                    /\ path[2] = Vec(FromInt(2), FromInt(1)))
        => path[3] = Vec(FromInt(3), Q(3, 2, 0))

RayStepExampleWitness ==
    /\ Len(path) >= 3
    /\ path[1] = Vec(FromInt(0), FromInt(0))
    /\ path[2] = Vec(FromInt(2), FromInt(1))
    /\ path[3] = Vec(FromInt(3), Q(3, 2, 0))

\* The index, along one axis, of the cell that holds a2 + t * (a2 - a1) for
\* every small t > 0.
EnteredAxis(a1, a2) ==
    IF NumLess(a2, a1) THEN NumSub(NumCeil(a2), FromInt(1)) ELSE NumFloor(a2)

\* C4: for a frontier p1 and p2 = rayStep(_, p1) # p1, hittingCell(p1, p2) is
\* the cell the ray has just entered at p2.
HittingCellIsEntered ==
    \A i \in Calls :
        path[i + 1] # path[i + 2] =>
            cells[i] = Vec(EnteredAxis(path[i + 1].x, path[i + 2].x),
                           EnteredAxis(path[i + 1].y, path[i + 2].y))

\* C5: snap(x, dx) > x when dx > 0, < x when dx < 0, = x when dx = 0.
SnapStrict ==
    pc = "snap" =>
        /\ sdx.n > 0 => NumLess(sx, sres)
        /\ sdx.n < 0 => NumLess(sres, sx)
        /\ sdx.n = 0 => sres = sx

\* C5 for a coordinate x of grid magnitude.
SnapStrictModerate == (pc = "snap" /\ sx.e = 0) => SnapStrict

\* C6: for a scene of at least one row, sceneSize returns the number of
\* rows as height and the maximum row length as width.
SceneSizeIsMaxRowLength ==
    (pc = "sceneSize" /\ Len(scene) >= 1) =>
        /\ gridSize.y = FromInt(Len(scene))
        /\ \A i \in 1 .. Len(scene) : ~NumLess(gridSize.x, FromInt(Len(scene[i])))
        /\ \E i \in 1 .. Len(scene) : gridSize.x = FromInt(Len(scene[i]))

\* C6 for a scene with a row that is not empty.
SceneSizeIsMaxRowLengthNonEmptyRow ==
    (\E i \in 1 .. Len(scene) : Len(scene[i]) >= 1) => SceneSizeIsMaxRowLength

\* C7: sceneSize of the scene of zero rows is width 0, height 0.
SceneSizeOfEmptyScene ==
    (pc = "sceneSize" /\ scene = <<>>) => gridSize = zero

\* C8: minimap draws a cell as a wall only if the row has an entry at the
\* column and the entry is not zero (a read past the end of a short row
\* counts as unoccupied).
MinimapToleratesShortRows ==
    pc = "minimap" =>
        \A c \in fills : CellAt(scene, c[2], c[1]).defined
                            /\ CellAt(scene, c[2], c[1]).v # 0

\* C8 for a rectangular scene with columns.
MinimapRectangular ==
    (/\ pc = "minimap"
     /\ \A i \in 1 .. Len(scene) : Len(scene[i]) = Len(scene[1]) /\ Len(scene[i]) >= 1)
        => MinimapToleratesShortRows

\* The rule of snap: ceil(x + eps) for dx > 0, floor(x - eps) for dx < 0,
\* x for dx = 0.
SnapRule(x, dx) ==
    IF NumLess(FromInt(0), dx) THEN NumCeil(NumAdd(x, EPS))
    ELSE IF NumLess(dx, FromInt(0)) THEN NumFloor(NumSub(x, EPS))
    ELSE x

\* C9: for p2.x = p1.x, rayStep(p1, p2) = (p2.x, snap(p2.y, p2.y - p1.y)),
\* and for p1 = p2 it is p2.
VerticalStep ==
    \A i \in Calls :
        /\ path[i].x = path[i + 1].x =>
               path[i + 2] = Vec(path[i + 1].x,
                                 SnapRule(path[i + 1].y, NumSub(path[i + 1].y, path[i].y)))
        /\ path[i] = path[i + 1] => path[i + 2] = path[i + 1]

\* A vertical call, p2.x = p1.x, that moved y and kept x.
VerticalStepWitness ==
    \E i \in Calls : /\ path[i].x = path[i + 1].x
                     /\ path[i].y # path[i + 1].y
                     /\ path[i + 2].y # path[i + 1].y
                     /\ path[i + 2].x = path[i + 1].x

\* The bounded grids of C10: [0, w] x [0, h].
Grids == {Vec(FromInt(GridW), FromInt(GridH)), Vec(NumAdd(Huge, Huge), NumAdd(Huge, Huge))}

Inside(g, p) ==
    /\ ~NumLess(p.x, FromInt(0)) /\ ~NumLess(g.x, p.x)
    /\ ~NumLess(p.y, FromInt(0)) /\ ~NumLess(g.y, p.y)

\* Along one axis the step a2 -> a3 lands on an integer strictly beyond a2
\* in the direction a1 -> a2.
LandsBeyond(a1, a2, a3) ==
    /\ IsInteger(a3)
    /\ \/ NumLess(a1, a2) /\ NumLess(a2, a3)
       \/ NumLess(a2, a1) /\ NumLess(a3, a2)

\* C10: from p0 # p1 inside a grid [0, w] x [0, h], every step of the walk
\* puts a coordinate on an integer strictly beyond the previous point in the
\* direction of travel, and a point outside the grid is returned within
\* w + h + 2 steps.
WalkLeavesGrid ==
    \A g \in Grids :
        (Len(path) >= 2 /\ path[1] # path[2] /\ Inside(g, path[1]) /\ Inside(g, path[2])) =>
            /\ \A i \in Calls :
                   \/ LandsBeyond(path[i].x, path[i + 1].x, path[i + 2].x)
                   \/ LandsBeyond(path[i].y, path[i + 1].y, path[i + 2].y)
            /\ (g.x.e = 0 /\ g.y.e = 0 /\ Len(path) >= 2 + GridW + GridH + 2)
                   => \E j \in 1 .. Len(path) : ~Inside(g, path[j])

\* C10 for the grid of grid magnitude.
WalkLeavesGridModerate ==
    (Len(path) >= 2 /\ Moderate(path[1]) /\ Moderate(path[2])) => WalkLeavesGrid

====
